---- MODULE Spec2Model ----
(***************************************************************************)
(* Model of the approval program of                                        *)
(* src/assets/bugfree_approval_program.py (PyTeal, Mode.Application).      *)
(*                                                                         *)
(* The program is evaluated once per application-call transaction.  The    *)
(* ledger hands it the transaction group (Gtxn), the current transaction   *)
(* (Txn, one member of the group) and the application's global key/value   *)
(* state.  Global writes are committed iff the program approves; a failed  *)
(* Assert or an arithmetic panic rejects the call and discards its writes. *)
(* An approved call with on_completion = DeleteApplication removes the     *)
(* application.                                                            *)
(*                                                                         *)
(* uint64 values are modelled as naturals; the counter is capped by        *)
(* MaxCounter in the guard of the calls, far below 2^64, so the addition   *)
(* of line 42 never overflows inside the explored range.  The subtraction  *)
(* of line 44 keeps the AVM semantics: it panics when the result would be  *)
(* negative.                                                               *)
(***************************************************************************)
EXTENDS Integers, Sequences, FiniteSets, TLC

(* ------------------------------ bounds --------------------------------- *)
MaxCounter == 2
MaxGroupSize == 3

(* --------------------------- program constants -------------------------- *)
var_owner == "owner"
var_counter == "counter"

\* TxnType.Payment, TxnType.ApplicationCall and one other transaction type
Payment == "pay"
ApplicationCall == "appl"
AssetTransfer == "axfer"

\* OnComplete values that reach the approval program
NoOp == "NoOp"
OptIn == "OptIn"
CloseOut == "CloseOut"
UpdateApplication == "UpdateApplication"
DeleteApplication == "DeleteApplication"
OnComplete == {NoOp, OptIn, CloseOut, UpdateApplication, DeleteApplication}

\* Int(10 * 1000000) of line 41
Threshold == 10 * 1000000

(* ------------------------------ inputs ---------------------------------- *)
ZeroAddress == "zero"
Address == {"alice", "bob"}
Amounts == {1000000, 9999999, 10000000}

\* the application id the ledger assigned to the instance
AppId == 1

PaymentTxns ==
    [type_enum : {Payment}, sender : Address, receiver : Address, amount : Amounts]

\* receiver and amount of a non-payment transaction read as the zero values
AppCallTxns ==
    [type_enum : {ApplicationCall}, sender : Address, receiver : {ZeroAddress}, amount : {0}]

OtherTxns ==
    [type_enum : {AssetTransfer}, sender : {"alice"}, receiver : {ZeroAddress}, amount : {0}]

\* The groups the ledger can hand to the program with the current
\* transaction at index gi (0-based) of a group of n.  The current
\* transaction is an application call; Gtxn[0], when it is another
\* transaction, is a payment or a transaction of another type; the
\* remaining members are never read by the program.
GroupsOfSize(n, gi) ==
    { [i \in 1..n |-> IF i = gi + 1 THEN cur ELSE IF i = 1 THEN first ELSE other] :
        cur \in AppCallTxns,
        first \in PaymentTxns \cup OtherTxns,
        other \in OtherTxns }

Groups(gi) == UNION { GroupsOfSize(n, gi) : n \in (gi + 1)..MaxGroupSize }

(* ------------------------------ state ----------------------------------- *)
VARIABLES
    app,        \* "Uninitialized", "Active" or "Terminated"
    globals,    \* global key/value state of the application
    last,       \* the last call evaluated and what the program did with it
    creates,    \* history: creating calls processed so far
    start,      \* history: the counter when a run of decrements began
    steps       \* history: calls of that run processed so far

vars == <<app, globals, last, creates, start, steps>>

(* ------------------------- PyTeal expressions --------------------------- *)
\* App.globalGet: a missing key reads as Int(0)
globalGet(g, key) == IF key \in DOMAIN g THEN g[key] ELSE 0

\* App.globalPut
globalPut(g, key, value) == [k \in DOMAIN g \cup {key} |-> IF k = key THEN value ELSE g[k]]

\* Gtxn[i], 0-based
Gtxn(gtxn, i) == gtxn[i + 1]

\* outcome of one evaluation: approved (Return(Int(1))), the fault that
\* stopped it if any, the global state it leaves, and whether the `-` of
\* line 44 was executed
Outcome(approved, fault, g, sub) ==
    [approved |-> approved, fault |-> fault, globals |-> g, subtracted |-> sub]

\* variant: the counter is not initialised
init_contract_no_counter(g, txn) ==
    Outcome(TRUE, "none", globalPut(g, var_owner, txn.sender), FALSE)

init_contract(g, txn) ==
    Outcome(TRUE, "none",
            globalPut(globalPut(g, var_owner, txn.sender), var_counter, 0),
            FALSE)

\* variant: the owner check left out
always_owner(g, txn) == TRUE

is_owner(g, txn) == txn.sender = globalGet(g, var_owner)

\* lines 20-21: the transactions the checks read
payment_txn(gtxn) == Gtxn(gtxn, 0)

payment_check(gtxn) == payment_txn(gtxn).type_enum = Payment

payment_receiver_check(g, gtxn) == payment_txn(gtxn).receiver = globalGet(g, var_owner)

\* variant: the current transaction compared with the wrong type
app_check_wrong_type(txn) == txn.type_enum = Payment

app_check(txn) == txn.type_enum = ApplicationCall

\* variant: the checks also require the caller to be the owner
group_checks_owner_gated(g, gtxn, txn) ==
    /\ payment_check(gtxn)
    /\ payment_receiver_check(g, gtxn)
    /\ app_check(txn)
    /\ is_owner(g, txn)

\* variant: the receiver of the payment is not checked
group_checks_no_receiver(g, gtxn, txn) ==
    /\ payment_check(gtxn)
    /\ app_check(txn)

group_checks(g, gtxn, txn) ==
    /\ payment_check(gtxn)
    /\ payment_receiver_check(g, gtxn)
    /\ app_check(txn)

counter(g) == globalGet(g, var_counter)

\* variant: strict comparison with the threshold
amount_check_strict(gtxn) == payment_txn(gtxn).amount > Threshold

\* line 41: payment_txn.amount() >= Int(10 * 1000000)
amount_check(gtxn) == payment_txn(gtxn).amount >= Threshold

\* variant: the counter goes up by two
increment_by_two(g) == Outcome(TRUE, "none", globalPut(g, var_counter, counter(g) + 2), FALSE)

\* line 42: App.globalPut(var_counter, counter + Int(1))
increment(g) == Outcome(TRUE, "none", globalPut(g, var_counter, counter(g) + 1), FALSE)

\* line 44: App.globalPut(var_counter, counter - Int(1)); the uint64 `-`
\* panics when its result would be negative
decrement(g) ==
    IF counter(g) < 1
        THEN Outcome(FALSE, "underflow", g, TRUE)
        ELSE Outcome(TRUE, "none", globalPut(g, var_counter, counter(g) - 1), TRUE)

\* variant: the decrement without its guard (the program with the bug)
unguarded_decrement(g) == decrement(g)

\* variant: the decrement without its guard, on an unchecked signed integer
unchecked_decrement(g) ==
    Outcome(TRUE, "none", globalPut(g, var_counter, counter(g) - 1), TRUE)

\* variant: the guard off by one
guarded_decrement_gt_one(g) ==
    IF counter(g) > 1 THEN decrement(g) ELSE Outcome(TRUE, "none", g, FALSE)

\* lines 43-45: If(counter > Int(0), <decrement>) without an else branch
guarded_decrement(g) ==
    IF counter(g) > 0 THEN decrement(g) ELSE Outcome(TRUE, "none", g, FALSE)

\* lines 34-49
increment_counter(g, gtxn, txn) ==
    IF ~group_checks(g, gtxn, txn)
        THEN Outcome(FALSE, "assert", g, FALSE)
        ELSE IF amount_check(gtxn) THEN increment(g) ELSE guarded_decrement(g)

\* variant: Delete clears the counter
delete_clears_counter(g, txn) ==
    Outcome(is_owner(g, txn), "none", globalPut(g, var_counter, 0), FALSE)

\* variant: Delete approved for every sender
delete_unchecked(g, txn) == Outcome(TRUE, "none", g, FALSE)

\* Return(is_owner), lines 53 and 54
delete_branch(g, txn) == Outcome(is_owner(g, txn), "none", g, FALSE)

update_branch(g, txn) == Outcome(is_owner(g, txn), "none", g, FALSE)

\* variant: OptIn hands the instance to its sender
optin_takes_ownership(g, txn) ==
    Outcome(TRUE, "none", globalPut(g, var_owner, txn.sender), FALSE)

\* variant: OptIn runs the initialisation again
optin_reinit(g, txn) ==
    Outcome(TRUE, "none",
            globalPut(globalPut(g, var_owner, txn.sender), var_counter, 0),
            FALSE)

\* variant: OptIn gated by the owner check
optin_owner_only(g, txn) == Outcome(is_owner(g, txn), "none", g, FALSE)

\* Return(Int(1)), lines 55 and 56
optin_branch(g, txn) == Outcome(TRUE, "none", g, FALSE)

closeout_branch(g, txn) == Outcome(TRUE, "none", g, FALSE)

\* lines 51-58: Cond takes the first branch whose condition holds and
\* fails when none does
program(g, gtxn, txn, application_id, on_completion) ==
    IF application_id = 0 THEN init_contract(g, txn)
    ELSE IF on_completion = DeleteApplication THEN delete_branch(g, txn)
    ELSE IF on_completion = UpdateApplication THEN update_branch(g, txn)
    ELSE IF on_completion = OptIn THEN optin_branch(g, txn)
    ELSE IF on_completion = CloseOut THEN closeout_branch(g, txn)
    ELSE IF on_completion = NoOp THEN increment_counter(g, gtxn, txn)
    ELSE Outcome(FALSE, "cond", g, FALSE)

(* ------------------------------ ledger ---------------------------------- *)
\* One application call: the program is evaluated on the current global
\* state; its writes are kept iff it approves; an approved
\* DeleteApplication removes the application.
Evaluate(gtxn, gi, application_id, on_completion) ==
    LET txn == Gtxn(gtxn, gi)
        out == program(globals, gtxn, txn, application_id, on_completion)
    IN  /\ counter(out.globals) <= MaxCounter
        /\ globals' = IF out.approved THEN out.globals ELSE globals
        /\ app' = IF ~out.approved THEN app
                  ELSE IF on_completion = DeleteApplication THEN "Terminated"
                  ELSE "Active"
        /\ creates' = IF application_id = 0 THEN creates + 1 ELSE creates
        /\ last' = [called |-> TRUE,
                    gtxn |-> gtxn,
                    group_index |-> gi,
                    sender |-> txn.sender,
                    application_id |-> application_id,
                    on_completion |-> on_completion,
                    pre |-> globals,
                    approved |-> out.approved,
                    fault |-> out.fault,
                    subtracted |-> out.subtracted]

\* the creating call: Txn.application_id() = 0, any on_completion
Create ==
    /\ app = "Uninitialized"
    /\ \E gi \in 0..(MaxGroupSize - 1) : \E gtxn \in Groups(gi) : \E oc \in OnComplete :
           Evaluate(gtxn, gi, 0, oc)
    /\ UNCHANGED <<start, steps>>

\* a call to the created application
Call ==
    /\ app = "Active"
    /\ \E gi \in 0..(MaxGroupSize - 1) : \E gtxn \in Groups(gi) : \E oc \in OnComplete :
           Evaluate(gtxn, gi, AppId, oc)
    /\ UNCHANGED <<start, steps>>

NoCall ==
    [called |-> FALSE,
     gtxn |-> <<[type_enum |-> ApplicationCall, sender |-> "alice", receiver |-> ZeroAddress, amount |-> 0]>>,
     group_index |-> 0,
     sender |-> "alice",
     application_id |-> 0,
     on_completion |-> NoOp,
     pre |-> <<>>,
     approved |-> FALSE,
     fault |-> "none",
     subtracted |-> FALSE]

Init ==
    /\ app = "Uninitialized"
    /\ globals = <<>>
    /\ last = NoCall
    /\ creates = 0
    /\ start = 0
    /\ steps = 0

Next == Create \/ Call

Spec == Init /\ [][Next]_vars

(* ------------------------- a run of decrements -------------------------- *)
\* steps of a run of decrements explored
StepCap == MaxCounter + 2

\* any state of the created instance: some owner, counter = n
DrainInit ==
    /\ app = "Active"
    /\ \E o \in Address : \E n \in 0..MaxCounter :
           /\ globals = globalPut(globalPut(<<>>, var_owner, o), var_counter, n)
           /\ start = n
    /\ last = NoCall
    /\ creates = 1
    /\ steps = 0

\* a NoOp call whose group passes the checks with an amount below the
\* threshold
Drain ==
    /\ app = "Active"
    /\ steps < StepCap
    /\ \E gi \in 0..(MaxGroupSize - 1) : \E gtxn \in Groups(gi) :
           /\ group_checks(globals, gtxn, Gtxn(gtxn, gi))
           /\ ~amount_check(gtxn)
           /\ Evaluate(gtxn, gi, AppId, NoOp)
    /\ steps' = steps + 1
    /\ UNCHANGED start

DrainNext == Drain

\* the calls keep coming
DrainSpec == DrainInit /\ [][DrainNext]_vars /\ WF_vars(Drain)

(* ------------------------ reading the last call ------------------------ *)
owner == globalGet(globals, var_owner)

LastCall == last.called /\ last.application_id # 0

LastCreate == last.called /\ last.application_id = 0

LastNoOp == LastCall /\ last.on_completion = NoOp

LastTxn == last.gtxn[last.group_index + 1]

LastOwner == last.pre[var_owner]

LastCounter == last.pre[var_counter]

\* the three clauses of the precondition of a NoOp, read off the call
LastChecksPass ==
    /\ last.gtxn[1].type_enum = Payment
    /\ last.gtxn[1].receiver = LastOwner
    /\ LastTxn.type_enum = ApplicationCall

LastAmount == last.gtxn[1].amount

Unchanged == globals = last.pre

(* ------------------------------- claims --------------------------------- *)

\* C1: in every state reachable from Create the counter is >= 0, and a
\* NoOp that would take the counter below 0 (counter 0, amount below the
\* threshold, checks passing) leaves the state as it was: the decrement is
\* not taken or the call aborts, the counter is neither wrapped nor clamped
\* to another value.
C1_CounterNonNegative ==
    app # "Uninitialized" =>
        /\ var_counter \in DOMAIN globals
        /\ globals[var_counter] >= 0
        /\ (LastNoOp /\ LastChecksPass /\ LastAmount < Threshold /\ LastCounter = 0
               => Unchanged)

C1_Witness ==
    /\ LastNoOp /\ LastChecksPass /\ LastAmount = 9999999 /\ LastCounter = 0
    /\ globals[var_counter] = 0

\* C2: on an initialised instance a Delete or Update call is approved iff
\* its sender is the owner.
C2_OwnerGating ==
    LastCall /\ last.on_completion \in {DeleteApplication, UpdateApplication}
        => (last.approved <=> last.sender = LastOwner)

C2_Witness ==
    /\ LastCall /\ last.on_completion = UpdateApplication
    /\ last.sender = LastOwner /\ last.approved /\ LastCounter > 0

C5_GroupRejection ==
    LastNoOp /\ ( \/ last.gtxn[1].type_enum # Payment
                  \/ last.gtxn[1].receiver # LastOwner
                  \/ LastTxn.type_enum # ApplicationCall )
        => ~last.approved /\ Unchanged

C5_Witness ==
    /\ LastNoOp /\ last.gtxn[1].type_enum = Payment
    /\ last.gtxn[1].receiver # LastOwner /\ LastAmount >= Threshold
    /\ LastCounter > 0 /\ ~last.approved

C7_Decrement ==
    LastNoOp /\ LastChecksPass /\ LastAmount < Threshold /\ LastCounter > 0
        => /\ last.approved
           /\ globals[var_counter] = LastCounter - 1
           /\ owner = LastOwner

C7_Witness ==
    /\ LastNoOp /\ LastChecksPass /\ LastAmount < Threshold
    /\ LastCounter = 1 /\ globals[var_counter] = 0 /\ last.subtracted

\* C8: an OptIn or CloseOut call on an initialised instance is approved
\* for any sender and leaves owner and counter as they were.
C8_OptInCloseOut ==
    LastCall /\ last.on_completion \in {OptIn, CloseOut}
        => last.approved /\ Unchanged

C8_Witness ==
    /\ LastCall /\ last.on_completion = OptIn /\ last.sender # LastOwner
    /\ last.approved /\ LastCounter > 0

\* C9 as stated: a NoOp is approved only in a group of exactly 2
\* transactions.
C9_GroupOfTwo ==
    LastNoOp /\ last.approved => Len(last.gtxn) = 2

\* C10: a call with application_id = 0 takes the creation branch whatever
\* its on_completion: it is approved and leaves owner = sender, counter = 0.
C10_Create ==
    LastCreate
        => /\ last.approved
           /\ DOMAIN globals = {var_owner, var_counter}
           /\ globals[var_owner] = last.sender
           /\ globals[var_counter] = 0

C10_Witness ==
    /\ LastCreate /\ last.on_completion = DeleteApplication
    /\ last.sender = "bob" /\ owner = "bob"

\* C11: once set by Create, owner never changes: no call to the created
\* instance (OptIn, CloseOut, NoOp, Delete or Update, approved or rejected,
\* any sender, any group) changes the owner.
C11_OwnerKept ==
    [][app = "Active" => globals'[var_owner] = globals[var_owner]]_vars

C11_Witness ==
    /\ LastNoOp /\ last.approved /\ last.sender # LastOwner
    /\ globals[var_counter] # LastCounter /\ owner = LastOwner

\* C12: owner is defined iff a creating call has been processed, there is
\* exactly one creating call over the lifetime of the instance and it ran
\* on the empty state, and no call with application_id # 0 sets owner and
\* counter again: such a call finds both defined, keeps the owner, and
\* changes the counter only as a NoOp does.
C12_InitOnce ==
    /\ (var_owner \in DOMAIN globals <=> creates >= 1)
    /\ (var_counter \in DOMAIN globals <=> creates >= 1)
    /\ creates <= 1
    /\ (LastCreate => last.pre = <<>>)
    /\ (LastCall =>
           /\ DOMAIN last.pre = {var_owner, var_counter}
           /\ owner = LastOwner
           /\ (globals[var_counter] # LastCounter => LastNoOp))

C12_Witness ==
    /\ creates = 1 /\ LastCall /\ last.on_completion = OptIn
    /\ last.sender # LastOwner /\ LastCounter = MaxCounter
    /\ globals[var_counter] = MaxCounter

\* C13: a Delete or Update call leaves owner and counter as they were,
\* approved or rejected: the program writes nothing on these branches.
C13_DeleteUpdateFrame ==
    LastCall /\ last.on_completion \in {DeleteApplication, UpdateApplication}
        => Unchanged

C13_Witness ==
    /\ LastCall /\ last.on_completion = DeleteApplication /\ last.approved
    /\ LastCounter > 0 /\ globals[var_counter] = LastCounter

\* C14: the instance is terminated only by an approved DeleteApplication
\* call whose sender is the owner; a call to the created instance that
\* terminates it comes from the owner recorded before the call.
C14_TerminatedByOwner ==
    app = "Terminated" =>
        /\ last.called /\ last.approved
        /\ last.on_completion = DeleteApplication
        /\ last.sender = owner
        /\ (LastCall => last.sender = LastOwner)

C14_Witness ==
    /\ app = "Terminated" /\ LastCall /\ last.sender = LastOwner
    /\ LastCounter = 1

\* C15: on an initialised instance only an approved NoOp changes the
\* counter, and it changes it by +1, -1 or 0.
C15_CounterFrame ==
    LastCall =>
        /\ (globals[var_counter] # LastCounter => LastNoOp /\ last.approved)
        /\ globals[var_counter] - LastCounter \in {-1, 0, 1}

C15_Witness ==
    /\ LastNoOp /\ last.approved /\ LastCounter = 1
    /\ globals[var_counter] = 2

AgreesWithLast(gtxn, gi) ==
    /\ gtxn[1].type_enum = last.gtxn[1].type_enum
    /\ gtxn[1].receiver = last.gtxn[1].receiver
    /\ gtxn[1].amount = last.gtxn[1].amount
    /\ gtxn[gi + 1].type_enum = LastTxn.type_enum

\* the state the ledger keeps after a NoOp on the state of the last call
NoOpResult(gtxn, gi) ==
    LET out == program(last.pre, gtxn, Gtxn(gtxn, gi), AppId, NoOp)
    IN  [approved |-> out.approved,
         globals |-> IF out.approved THEN out.globals ELSE last.pre]

\* C17: verdict and new state of a NoOp depend only on owner, counter,
\* type, receiver and amount of Gtxn[0] and the type of the current
\* transaction: any NoOp on the same state that agrees with the last one
\* on these, whatever its sender and the sender of Gtxn[0], has the same
\* verdict and leaves the same state.
C17_NoOpIndependentOfSenders ==
    LastNoOp =>
        \A gi \in 0..(MaxGroupSize - 1) : \A gtxn \in Groups(gi) :
            AgreesWithLast(gtxn, gi) =>
                NoOpResult(gtxn, gi) = [approved |-> last.approved, globals |-> globals]

C17_Witness ==
    /\ LastNoOp /\ last.approved /\ last.sender # LastOwner
    /\ last.gtxn[1].sender # LastOwner /\ globals[var_counter] = LastCounter + 1

\* C18: the current transaction of a NoOp is always an application call,
\* so every rejected NoOp has a Gtxn[0] that is no payment or whose
\* receiver is not the owner.
C18_RejectedByPaymentClauses ==
    LastNoOp =>
        /\ LastTxn.type_enum = ApplicationCall
        /\ (~last.approved =>
               \/ last.gtxn[1].type_enum # Payment
               \/ last.gtxn[1].receiver # LastOwner)

C18_Witness ==
    /\ LastNoOp /\ ~last.approved /\ last.fault = "assert"
    /\ last.gtxn[1].type_enum = Payment /\ last.gtxn[1].receiver # LastOwner

\* after k calls of a run of decrements begun at counter n the counter is
\* n - k, or 0 once k >= n, and every call of the run was approved
DrainInv ==
    /\ (steps > 0 => LastNoOp /\ last.approved)
    /\ globals[var_counter] = IF steps < start THEN start - steps ELSE 0

====
